---- MODULE Spec2Model ----
(***************************************************************************)
(* A model of pip-upgrader.py: the command line run (main and              *)
(* PipUpgrader.upgrade_packages) as a sequential state machine over the    *)
(* requirements file, its backup, the skip list and pip's invocations,     *)
(* and the text functions of the class applied to bounded inputs.          *)
(* Text is a sequence of one-character strings.                            *)
(***************************************************************************)
EXTENDS Integers, Sequences, FiniteSets, TLC

\* ------------------------------------------------------------------ bounds
\* Longest free-form first line of an enumerated requirements file.
MaxLineLen == 4
\* Most packages in an enumerated pip snapshot.
MaxPkgs == 2

\* ------------------------------------------------------------------ text
NL == "\n"

\* The characters str.strip() removes.
Whitespace == {" ", "\t", "\n", "\r", "\f"}

UpperAlpha == <<"A","B","C","D","E","F","G","H","I","J","K","L","M",
                "N","O","P","Q","R","S","T","U","V","W","X","Y","Z">>

LowerAlpha == <<"a","b","c","d","e","f","g","h","i","j","k","l","m",
                "n","o","p","q","r","s","t","u","v","w","x","y","z">>

Range(s) == {s[i] : i \in 1..Len(s)}

LowerChar(c) ==
    IF \E i \in 1..Len(UpperAlpha) : UpperAlpha[i] = c
    THEN LowerAlpha[CHOOSE i \in 1..Len(UpperAlpha) : UpperAlpha[i] = c]
    ELSE c

\* str.lower()
Lower(s) == [i \in 1..Len(s) |-> LowerChar(s[i])]

RECURSIVE LStrip(_)
LStrip(s) ==
    IF s = <<>> THEN s
    ELSE IF Head(s) \in Whitespace THEN LStrip(Tail(s)) ELSE s

RECURSIVE RStrip(_)
RStrip(s) ==
    IF s = <<>> THEN s
    ELSE IF s[Len(s)] \in Whitespace THEN RStrip(SubSeq(s, 1, Len(s) - 1)) ELSE s

\* str.strip()
Strip(s) == RStrip(LStrip(s))

\* '==' in line
HasEq(s) == \E i \in 1..(Len(s) - 1) : s[i] = "=" /\ s[i + 1] = "="

\* Index of the first '==' of s (s holds one).
FirstEq(s) ==
    CHOOSE i \in 1..(Len(s) - 1) :
        /\ s[i] = "=" /\ s[i + 1] = "="
        /\ \A j \in 1..(i - 1) : ~(s[j] = "=" /\ s[j + 1] = "=")

\* line.split('==')[0]
SplitHead(s) == IF HasEq(s) THEN SubSeq(s, 1, FirstEq(s) - 1) ELSE s

\* line.split('=='): the pieces between the non-overlapping '==' of s, left to right.
RECURSIVE SplitEq(_)
SplitEq(s) ==
    IF ~HasEq(s) THEN <<s>>
    ELSE <<SubSeq(s, 1, FirstEq(s) - 1)>>
             \o SplitEq(SubSeq(s, FirstEq(s) + 2, Len(s)))

\* line.replace("==", ">="): every non-overlapping '==' from the left.
RECURSIVE ReplaceEq(_)
ReplaceEq(s) ==
    IF Len(s) < 2 THEN s
    ELSE IF s[1] = "=" /\ s[2] = "="
         THEN <<">", "=">> \o ReplaceEq(SubSeq(s, 3, Len(s)))
         ELSE <<s[1]>> \o ReplaceEq(Tail(s))

\* file.readlines(): the lines of a text, each keeping its newline.
RECURSIVE ReadLines(_)
ReadLines(t) ==
    IF t = <<>> THEN <<>>
    ELSE IF \E i \in 1..Len(t) : t[i] = NL
         THEN LET k == CHOOSE i \in 1..Len(t) :
                           t[i] = NL /\ \A j \in 1..(i - 1) : t[j] # NL
              IN <<SubSeq(t, 1, k)>> \o ReadLines(SubSeq(t, k + 1, Len(t)))
         ELSE <<t>>

\* str.splitlines(): the lines of a text without their newlines.
SplitLines(t) ==
    LET ls == ReadLines(t)
    IN [i \in 1..Len(ls) |->
            IF ls[i][Len(ls[i])] = NL THEN SubSeq(ls[i], 1, Len(ls[i]) - 1)
            ELSE ls[i]]

\* The concatenation of a sequence of texts.
RECURSIVE Concat(_)
Concat(ss) == IF ss = <<>> THEN <<>> ELSE Head(ss) \o Concat(Tail(ss))

\* The non-empty texts of a sequence, in order.
RECURSIVE SelectNonEmpty(_)
SelectNonEmpty(ss) ==
    IF ss = <<>> THEN <<>>
    ELSE IF Head(ss) # <<>> THEN <<Head(ss)>> \o SelectNonEmpty(Tail(ss))
         ELSE SelectNonEmpty(Tail(ss))


\* ------------------------------------------------------------------ program functions
\* A dict is a sequence of <<key, value>> pairs with distinct keys, in insertion order.
DictKeys(d) == {d[i][1] : i \in 1..Len(d)}

DictGet(d, k) == d[CHOOSE i \in 1..Len(d) : d[i][1] = k][2]

\* d[k] = v
DictSet(d, k, v) ==
    IF k \in DictKeys(d)
    THEN [i \in 1..Len(d) |-> IF d[i][1] = k THEN <<k, v>> ELSE d[i]]
    ELSE Append(d, <<k, v>>)

\* get_skipped_packages on a readable skip file: the stripped non-empty lines.
StripAll(ls) == [i \in 1..Len(ls) |-> Strip(ls[i])]

GetSkippedPackages(text) == SelectNonEmpty(StripAll(SplitLines(text)))

\* get_installed_packages: `package, version = line.split("==")` raises ValueError
\* on a line that splits into more than two pieces.
FreezeRaises(stdout) ==
    \E i \in 1..Len(SplitLines(stdout)) :
        HasEq(SplitLines(stdout)[i]) /\ Len(SplitEq(SplitLines(stdout)[i])) # 2

RECURSIVE ParseFreezeLines(_, _)
ParseFreezeLines(ls, packages) ==
    IF ls = <<>> THEN packages
    ELSE IF HasEq(Head(ls))
         THEN ParseFreezeLines(Tail(ls),
                  DictSet(packages, Lower(SplitEq(Head(ls))[1]), SplitEq(Head(ls))[2]))
         ELSE ParseFreezeLines(Tail(ls), packages)

GetInstalledPackages(stdout) == ParseFreezeLines(SplitLines(stdout), <<>>)

\* _process_requirements: what the loop writes for one line read.
ProcessLine(rawLine, skipped_packages) ==
    LET line == Strip(rawLine)
    IN IF line = <<>> \/ line[1] = "#" THEN line \o <<NL>>
       ELSE IF HasEq(line)
            THEN IF Lower(SplitHead(line)) \in Range(skipped_packages)
                 THEN line \o <<NL>>
                 ELSE ReplaceEq(line) \o <<NL>>
            ELSE line \o <<NL>>

\* _process_requirements run to its end: the file's text afterwards.
ProcessRequirements(text, skipped_packages) ==
    Concat([i \in 1..Len(ReadLines(text)) |->
                ProcessLine(ReadLines(text)[i], skipped_packages)])

\* f"{package}: {old_version} -> {new_version}"
FormatUpdate(package, old_version, new_version) ==
    package \o <<":", " ">> \o old_version \o <<" ", "-", ">", " ">> \o new_version

\* _report_changes without the test of the skip list.
RECURSIVE UpdatesOfSkippedToo(_, _, _)
UpdatesOfSkippedToo(old_packages, new_packages, skipped_packages) ==
    IF old_packages = <<>> THEN <<>>
    ELSE LET package == Head(old_packages)[1]
             old_version == Head(old_packages)[2]
             rest == UpdatesOfSkippedToo(Tail(old_packages), new_packages, skipped_packages)
         IN IF /\ package \in DictKeys(new_packages)
               /\ old_version # DictGet(new_packages, package)
            THEN <<package \o <<":", " ">> \o old_version \o <<" ", "-", ">", " ">>
                       \o DictGet(new_packages, package)>> \o rest
            ELSE rest

\* _report_changes: the list `updates`.
RECURSIVE Updates(_, _, _)
Updates(old_packages, new_packages, skipped_packages) ==
    IF old_packages = <<>> THEN <<>>
    ELSE LET package == Head(old_packages)[1]
             old_version == Head(old_packages)[2]
             rest == Updates(Tail(old_packages), new_packages, skipped_packages)
         IN IF /\ package \in DictKeys(new_packages)
               /\ package \notin Range(skipped_packages)
               /\ old_version # DictGet(new_packages, package)
            THEN <<FormatUpdate(package, old_version, DictGet(new_packages, package))>>
                     \o rest
            ELSE rest

\* A log record; text carries the formatted part of the message, if any.
LogRec(level, msg, text) == [level |-> level, msg |-> msg, text |-> text]

\* _report_changes: the records it logs.
ReportChanges(old_packages, new_packages, skipped_packages) ==
    LET updates == Updates(old_packages, new_packages, skipped_packages)
    IN IF updates # <<>>
       THEN <<LogRec("INFO", "Updated packages:", <<>>)>>
                \o [i \in 1..Len(updates) |-> LogRec("INFO", "update", updates[i])]
       ELSE <<LogRec("INFO", "No packages were updated.", <<>>)>>

\* A copy made the way _process_requirements writes: line by line, each stripped.
CopyLinesStripped(text) ==
    Concat([i \in 1..Len(ReadLines(text)) |-> Strip(ReadLines(text)[i]) \o <<NL>>])

\* shutil.copy2 that succeeds: the text of the destination is the source's.
Copy2(text) == text

\* create_backup with the exception raised in a dry run instead of a real one.
CreateBackupResultRaisesInDryRun(dry_run, exists, copied) ==
    IF ~exists THEN [raised |-> FALSE, ret |-> "None"]
    ELSE IF copied THEN [raised |-> FALSE, ret |-> "requirements_backup"]
    ELSE IF dry_run THEN [raised |-> TRUE, ret |-> "None"]
    ELSE [raised |-> FALSE, ret |-> "None"]

\* create_backup with the failed copy swallowed: the name is returned all the same.
CreateBackupResultSwallows(dry_run, exists, copied) ==
    IF ~exists THEN [raised |-> FALSE, ret |-> "None"]
    ELSE [raised |-> FALSE, ret |-> "requirements_backup"]

\* create_backup: what it returns or raises, given the outcome of exists() and of copy2.
CreateBackupResult(dry_run, exists, copied) ==
    IF ~exists THEN [raised |-> FALSE, ret |-> "None"]
    ELSE IF copied THEN [raised |-> FALSE, ret |-> "requirements_backup"]
    ELSE IF ~dry_run THEN [raised |-> TRUE, ret |-> "None"]
    ELSE [raised |-> FALSE, ret |-> "None"]

\* Path(requirements_file).resolve(), and the file a relative pip argument names:
\* both are taken from the working directory.
Resolve(path) == <<"cwd", path>>

\* main with the self-upgrade decided by --skip-pip alone.
RunsSelfUpgradeInDryRun(skip_pip, dry_run) == ~skip_pip

\* main: the self-upgrade runs unless --skip-pip or --dry-run.
RunsSelfUpgrade(skip_pip, dry_run) == ~skip_pip /\ ~dry_run

\* The test of the result left out: every result passes for a success.
IsCalledProcessErrorNever(result) == FALSE

\* isinstance(result, subprocess.CalledProcessError)
IsCalledProcessError(result) == result = "nonzero"

\* The requirements file named by the install command of upgrade_packages.
InstallFile == "requirements.txt"

\* ------------------------------------------------------------------ inputs of a run
\* Requirements files a run starts from: the scenario of two pins, a file with a
\* comment, a blank line and a capitalised pin, a file with padded lines and no
\* final newline, and the empty file.
ManifestPool ==
    { <<"f", "l", "a", "s", "k", "=", "=", "2", ".", "0", ".", "1", "\n", "r", "e", "q", "u", "e", "s", "t", "s", "=", "=", "2", ".", "2", "8", ".", "0", "\n">>,
      <<"#", " ", "c", "\n", "\n", "F", "l", "a", "s", "k", "=", "=", "1", "\n">>,
      <<" ", "a", "=", "=", "1", " ", "\n", "b">>,
      <<>> }

\* skip_packages.txt: absent, or one of these texts.
SkipFilePool ==
    { [exists |-> FALSE, text |-> <<>>],
      [exists |-> TRUE, text |-> <<"f", "l", "a", "s", "k", "\n">>],
      [exists |-> TRUE, text |-> <<"F", "l", "a", "s", "k", "\n", "\n", " ", "a", " ", "\n">>],
      [exists |-> TRUE, text |-> <<"A", "\n">>] }

\* What `pip freeze` may print.
FreezePool ==
    { <<>>,
      <<"F", "l", "a", "s", "k", "=", "=", "2", ".", "0", ".", "1", "\n", "r", "e", "q", "u", "e", "s", "t", "s", "=", "=", "2", ".", "2", "8", ".", "0", "\n">>,
      <<"r", "e", "q", "u", "e", "s", "t", "s", "=", "=", "2", ".", "3", "1", ".", "0", "\n", "f", "l", "a", "s", "k", "=", "=", "2", ".", "0", ".", "1", "\n", "n", "o", "t", "e", "\n">>,
      <<"a", "=", "=", "1", "=", "=", "2", "\n">> }

\* --requirements
RequirementsArgs == {"requirements.txt", "dev.txt"}

\* How a subprocess.run(..., check=True) may end: exit 0, a non-zero exit
\* (CalledProcessError), or no process at all (any other exception).
PipOutcomes == {"ok", "nonzero", "raise"}

Prefixes(t) == {SubSeq(t, 1, n) : n \in 0..Len(t)}

\* ------------------------------------------------------------------ state
VARIABLES
    pc,              \* where main / upgrade_packages stands
    dryRun,          \* args.dry_run
    skipPip,         \* args.skip_pip
    requirementsArg, \* args.requirements
    manifestExists,  \* the requirements file is on disk
    manifest,        \* its text
    manifest0,       \* its text when the process started
    backupExists,    \* the backup file is on disk
    backup,          \* its text
    backupFile,      \* upgrade_packages' backup_file, "unset" before create_backup returns
    skipFile,        \* skip_packages.txt
    skipped,         \* skipped_packages
    oldPackages,     \* old_packages
    newPackages,     \* new_packages
    requirements,    \* _process_requirements' list of lines read
    wIdx,            \* the next line of `requirements` to write
    simIdx,          \* the next package of _simulate_upgrades' loop
    invoked,         \* the pip commands run so far
    log,             \* the records logged so far
    exitCode,        \* the process's exit status, -1 while it runs
    after,           \* what follows _restore_backup: "raise" or "return"
    manifestWrites,  \* how many times the requirements file was opened for writing, written or copied onto
    backupWrites,    \* how many times a backup file was copied into
    raised,          \* a method called on its own ended by raising
    pipOnPath        \* an executable named `pip` is found on the PATH

vars == <<pc, dryRun, skipPip, requirementsArg, manifestExists, manifest, manifest0,
          backupExists, backup, backupFile, skipFile, skipped, oldPackages,
          newPackages, requirements, wIdx, simIdx, invoked, log, exitCode, after,
          manifestWrites, backupWrites, raised, pipOnPath>>

argVars == <<dryRun, skipPip, requirementsArg, manifest0, skipFile, raised, pipOnPath>>
fileVars == <<manifestExists, manifest, backupExists, backup, manifestWrites, backupWrites>>
localVars == <<backupFile, skipped, oldPackages, newPackages, requirements, wIdx, simIdx, after>>

\* The exceptions a run may end with, each named by what raised it: __init__ for
\* a requirements file that is not there, subprocess.run for a program it cannot
\* start, the unpacking of a freeze line, shutil.copy2 in create_backup, the file
\* operations of _process_requirements, shutil.copy2 in _restore_backup.
FileNotFound == <<"FileNotFoundError">>
CannotRun == <<"subprocess.run">>
ValueError == <<"ValueError">>
BackupError == <<"create_backup">>
RewriteError == <<"_process_requirements">>
RestoreError == <<"_restore_backup">>

\* self.requirements_file
RequirementsFile == Resolve(requirementsArg)

\* A pip command run: which, the requirements file or package it names, and how it ended.
Cmd(cmd, file, package, result) ==
    [cmd |-> cmd, file |-> file, package |-> package, result |-> result]

\* run_pip_command: the program that command.split() names first, "python -m pip"
\* having been made self.python_cmd's.
Executable(cmd) == IF cmd = "self_upgrade" THEN "python3" ELSE "pip"

\* run_pip_command: how subprocess.run may end. It returns, raises CalledProcessError
\* for a non-zero exit, or raises something else when the program cannot be started,
\* which is all it can do with a program that is not on the PATH.
Outcomes(cmd) ==
    IF Executable(cmd) = "pip" /\ ~pipOnPath THEN {"raise"} ELSE PipOutcomes

\* run_pip_command: what it logs for an outcome.
PipLog(r) ==
    IF r = "nonzero" THEN <<LogRec("ERROR", "Error running pip command", <<>>)>>
    ELSE IF r = "raise"
         THEN <<LogRec("ERROR", "Unexpected error running pip command", <<>>)>>
         ELSE <<>>

\* main's `except Exception as e`: log e and sys.exit(1).
ScriptFails(entries, e) ==
    /\ log' = log \o entries \o <<LogRec("ERROR", "Script failed", e)>>
    /\ exitCode' = 1
    /\ pc' = "done"

\* upgrade_packages' `except Exception as e`: log e, re-raise it into main's.
UpgradeRaises(entries, e) ==
    ScriptFails(entries \o <<LogRec("ERROR", "Error during upgrade process", e)>>, e)

\* upgrade_packages returns: main logs the end of the script and falls off its end.
UpgradeReturns(entries) ==
    /\ log' = log \o entries
                  \o <<LogRec("INFO", "Script execution finished successfully.", <<>>)>>
    /\ exitCode' = 0
    /\ pc' = "done"

Init ==
    /\ pc = "start"
    /\ dryRun \in BOOLEAN
    /\ skipPip \in BOOLEAN
    /\ requirementsArg \in RequirementsArgs
    /\ manifestExists \in BOOLEAN
    /\ manifest \in ManifestPool
    /\ manifestExists = FALSE => manifest = <<>>
    /\ manifest0 = manifest
    /\ backupExists = FALSE
    /\ backup = <<>>
    /\ backupFile = "unset"
    /\ skipFile \in SkipFilePool
    /\ skipped = <<>>
    /\ oldPackages = <<>>
    /\ newPackages = <<>>
    /\ requirements = <<>>
    /\ wIdx = 0
    /\ simIdx = 0
    /\ invoked = <<>>
    /\ log = <<>>
    /\ exitCode = -1
    /\ after = "none"
    /\ manifestWrites = 0
    /\ backupWrites = 0
    /\ raised = FALSE
    /\ pipOnPath \in BOOLEAN

\* ------------------------------------------------------------------ main
\* main: `python -m pip --version`; a non-zero exit prints and exits 1.
CheckPip ==
    /\ pc = "start"
    /\ \E r \in {"ok", "nonzero"} :
          /\ invoked' = Append(invoked, Cmd("version", "", <<>>, r))
          /\ IF r = "ok"
             THEN pc' = "construct" /\ UNCHANGED <<log, exitCode>>
             ELSE pc' = "done" /\ exitCode' = 1 /\ UNCHANGED log
    /\ UNCHANGED <<argVars, fileVars, localVars>>

\* PipUpgrader.__init__, then main's choice of the self-upgrade.
Construct ==
    /\ pc = "construct"
    /\ IF ~manifestExists
       THEN ScriptFails(<<>>, FileNotFound)
       ELSE /\ pc' = IF RunsSelfUpgrade(skipPip, dryRun) THEN "upgrade_pip" ELSE "skip_list"
            /\ UNCHANGED <<log, exitCode>>
    /\ UNCHANGED <<argVars, fileVars, localVars, invoked>>

\* upgrade_pip_if_available: the result of the command is not looked at.
UpgradePip ==
    /\ pc = "upgrade_pip"
    /\ \E r \in Outcomes("self_upgrade") :
          /\ invoked' = Append(invoked, Cmd("self_upgrade", "", <<>>, r))
          /\ IF r = "raise"
             THEN ScriptFails(<<LogRec("INFO", "Checking if pip needs an upgrade...", <<>>)>>
                                  \o PipLog(r), CannotRun)
             ELSE /\ log' = log \o <<LogRec("INFO", "Checking if pip needs an upgrade...", <<>>)>>
                                \o PipLog(r)
                                \o <<LogRec("INFO", "Pip upgrade check complete.", <<>>)>>
                  /\ pc' = "skip_list"
                  /\ UNCHANGED exitCode
    /\ UNCHANGED <<argVars, fileVars, localVars>>

\* ------------------------------------------------------------------ upgrade_packages
\* get_skipped_packages, and the log line of upgrade_packages.
GetSkipped ==
    /\ pc = "skip_list"
    /\ \E readable \in BOOLEAN :
          IF ~skipFile.exists
          THEN skipped' = <<>> /\ UNCHANGED log
          ELSE IF ~readable
               THEN /\ skipped' = <<>>
                    /\ log' = Append(log, LogRec("ERROR", "Error reading skip_packages.txt", <<>>))
               ELSE /\ skipped' = GetSkippedPackages(skipFile.text)
                    /\ log' = IF GetSkippedPackages(skipFile.text) # <<>>
                              THEN Append(log, LogRec("INFO", "Skipping packages", <<>>))
                              ELSE log
    /\ pc' = "freeze_before"
    /\ UNCHANGED <<argVars, fileVars, backupFile, oldPackages, newPackages, requirements,
                   wIdx, simIdx, after, invoked, exitCode>>

\* The real run that rewrites the file without a backup of it.
AfterBeforeSnapshotNoBackup(dry_run) == IF dry_run THEN "simulate" ELSE "rewrite_read"

\* upgrade_packages after the first snapshot: the simulation and the return in a
\* dry run, the backup otherwise.
AfterBeforeSnapshot(dry_run) == IF dry_run THEN "simulate" ELSE "backup"

\* old_packages = self.get_installed_packages()
FreezeBefore ==
    /\ pc = "freeze_before"
    /\ \E r \in Outcomes("freeze"), stdout \in FreezePool :
          /\ invoked' = Append(invoked, Cmd("freeze", "", <<>>, r))
          /\ IF r = "raise" \/ FreezeRaises(stdout)
             THEN UpgradeRaises(PipLog(r), IF r = "raise" THEN CannotRun ELSE ValueError)
                  /\ UNCHANGED <<oldPackages, simIdx>>
             ELSE /\ oldPackages' = GetInstalledPackages(stdout)
                  /\ log' = log \o PipLog(r)
                                \o IF dryRun
                                   THEN <<LogRec("INFO", "DRY RUN - No changes will be made", <<>>),
                                          LogRec("INFO", "Checking for available upgrades...", <<>>)>>
                                   ELSE <<>>
                  /\ pc' = AfterBeforeSnapshot(dryRun)
                  /\ simIdx' = 1
                  /\ UNCHANGED exitCode
    /\ UNCHANGED <<argVars, fileVars, backupFile, skipped, newPackages, requirements,
                   wIdx, after>>

\* _simulate_upgrades: one turn of its loop, or its end and the return.
Simulate ==
    /\ pc = "simulate"
    /\ IF simIdx > Len(oldPackages)
       THEN UpgradeReturns(<<>>) /\ UNCHANGED <<simIdx, invoked>>
       ELSE IF oldPackages[simIdx][1] \in Range(skipped)
            THEN simIdx' = simIdx + 1 /\ UNCHANGED <<pc, log, exitCode, invoked>>
            ELSE \E r \in Outcomes("index") :
                    /\ invoked' = Append(invoked, Cmd("index", "", oldPackages[simIdx][1], r))
                    /\ IF r = "raise"
                          THEN UpgradeRaises(PipLog(r), CannotRun) /\ UNCHANGED simIdx
                          ELSE /\ log' = log \o PipLog(r)
                                            \o IF ~IsCalledProcessError(r)
                                               THEN <<LogRec("INFO", "Would upgrade",
                                                             oldPackages[simIdx][1])>>
                                               ELSE <<>>
                               /\ simIdx' = simIdx + 1
                               /\ UNCHANGED <<pc, exitCode>>
    /\ UNCHANGED <<argVars, fileVars, backupFile, skipped, oldPackages, newPackages,
                   requirements, wIdx, after>>

\* backup_file = self.create_backup(), and the abort when it is None. The file may
\* have gone since __init__ saw it; a copy that fails may leave any part of the
\* text in the backup file, or no file.
CreateBackup ==
    /\ pc = "backup"
    /\ \E exists \in {manifestExists, FALSE}, copied \in BOOLEAN :
          LET res == CreateBackupResult(dryRun, exists, copied)
          IN /\ manifestExists' = exists
             /\ IF ~exists
                THEN UNCHANGED <<backupExists, backup, backupWrites>>
                ELSE IF copied
                     THEN /\ backupExists' = TRUE
                          /\ backup' = Copy2(manifest)
                          /\ backupWrites' = backupWrites + 1
                     ELSE \/ UNCHANGED <<backupExists, backup, backupWrites>>
                          \/ /\ backupExists' = TRUE
                             /\ backup' \in Prefixes(manifest)
                             /\ backupWrites' = backupWrites + 1
             /\ backupFile' = res.ret
             /\ IF res.raised
                THEN UpgradeRaises(<<LogRec("ERROR", "Failed to create backup", <<>>)>>,
                                   BackupError)
                ELSE IF res.ret = "None"
                     THEN UpgradeReturns(
                              (IF exists
                               THEN <<LogRec("ERROR", "Failed to create backup", <<>>)>>
                               ELSE <<>>)
                              \o <<LogRec("ERROR", "Failed to create backup, aborting", <<>>)>>)
                     ELSE /\ log' = Append(log, LogRec("INFO", "Created backup", <<>>))
                          /\ pc' = "rewrite_read"
                          /\ UNCHANGED exitCode
    /\ UNCHANGED <<argVars, manifest, manifestWrites, skipped, oldPackages, newPackages,
                   requirements, wIdx, simIdx, after, invoked>>

\* The handler without the restore: the exception goes straight up.
RewriteFailsNoRestore ==
    /\ UpgradeRaises(<<>>, RewriteError)
    /\ after' = "raise"

\* upgrade_packages' handler of an exception of _process_requirements: restore,
\* then re-raise.
RewriteFails ==
    /\ pc' = "restore"
    /\ after' = "raise"
    /\ UNCHANGED <<log, exitCode>>

\* _process_requirements: open(..., "r") and readlines().
RewriteRead ==
    /\ pc = "rewrite_read"
    /\ \E ok \in BOOLEAN :
          IF ok
          THEN /\ requirements' = ReadLines(manifest)
               /\ pc' = "rewrite_open"
               /\ UNCHANGED <<after, log, exitCode>>
          ELSE RewriteFails /\ UNCHANGED requirements
    /\ UNCHANGED <<argVars, fileVars, backupFile, skipped, oldPackages, newPackages,
                   wIdx, simIdx, invoked>>

\* _process_requirements: open(..., "w") truncates the file.
RewriteOpen ==
    /\ pc = "rewrite_open"
    /\ \E ok \in BOOLEAN :
          IF ok
          THEN /\ manifest' = <<>>
               /\ manifestWrites' = manifestWrites + 1
               /\ wIdx' = 1
               /\ pc' = "rewrite_write"
               /\ UNCHANGED <<after, log, exitCode>>
          ELSE RewriteFails /\ UNCHANGED <<manifest, manifestWrites, wIdx>>
    /\ UNCHANGED <<argVars, manifestExists, backupExists, backup, backupWrites, backupFile,
                   skipped, oldPackages, newPackages, requirements, simIdx, invoked>>

\* _process_requirements: one file.write of the loop, or the close that ends it.
RewriteWrite ==
    /\ pc = "rewrite_write"
    /\ \E ok \in BOOLEAN :
          IF ~ok
          THEN RewriteFails /\ UNCHANGED <<manifest, manifestWrites, wIdx>>
          ELSE IF wIdx > Len(requirements)
               THEN /\ pc' = "install"
                    /\ UNCHANGED <<manifest, manifestWrites, wIdx, after, log, exitCode>>
               ELSE /\ manifest' = manifest \o ProcessLine(requirements[wIdx], skipped)
                    /\ manifestWrites' = manifestWrites + 1
                    /\ wIdx' = wIdx + 1
                    /\ UNCHANGED <<pc, after, log, exitCode>>
    /\ UNCHANGED <<argVars, manifestExists, backupExists, backup, backupWrites, backupFile,
                   skipped, oldPackages, newPackages, requirements, simIdx, invoked>>

\* result = self.run_pip_command("pip install -r requirements.txt --upgrade")
Install ==
    /\ pc = "install"
    /\ \E r \in Outcomes("install") :
          /\ invoked' = Append(invoked, Cmd("install", InstallFile, <<>>, r))
          /\ IF r = "raise"
             THEN UpgradeRaises(<<LogRec("INFO", "Upgrading packages...", <<>>)>> \o PipLog(r),
                                CannotRun)
                      /\ UNCHANGED after
             ELSE /\ log' = log \o <<LogRec("INFO", "Upgrading packages...", <<>>)>> \o PipLog(r)
                  /\ IF IsCalledProcessError(r)
                     THEN pc' = "restore" /\ after' = "return"
                     ELSE pc' = "freeze_after" /\ UNCHANGED after
                  /\ UNCHANGED exitCode
    /\ UNCHANGED <<argVars, fileVars, backupFile, skipped, oldPackages, newPackages,
                   requirements, wIdx, simIdx>>

\* The handler that lets the failure of the copy out of _restore_backup.
RestoreRaisesOnFailure(copied) == ~copied

\* _restore_backup: its `except Exception` logs and ends the method, so nothing
\* gets out of it, whether the copy was made or not.
RestoreRaises(copied) == FALSE

\* After the restore the run goes on to the second snapshot.
InstallFailedGoesOn(entry) ==
    /\ log' = log \o <<entry, LogRec("ERROR", "Package upgrade failed, restored backup", <<>>)>>
    /\ pc' = "freeze_after"
    /\ UNCHANGED exitCode

\* upgrade_packages after the restore that follows a failed install: log, return.
InstallFailed(entry) ==
    UpgradeReturns(<<entry, LogRec("ERROR", "Package upgrade failed, restored backup", <<>>)>>)

\* _restore_backup, and what upgrade_packages does next. A copy that fails is
\* logged and may leave the requirements file as it was or holding any part of
\* the backup's text.
RestoreBackup ==
    /\ pc = "restore"
    /\ \E copied \in BOOLEAN :
          /\ IF copied
             THEN /\ manifest' = Copy2(backup)
                  /\ manifestExists' = TRUE
                  /\ manifestWrites' = manifestWrites + 1
             ELSE \/ UNCHANGED <<manifest, manifestExists, manifestWrites>>
                  \/ /\ manifest' \in Prefixes(backup)
                     /\ manifestExists' = TRUE
                     /\ manifestWrites' = manifestWrites + 1
          /\ LET entry == IF copied
                          THEN LogRec("INFO", "Restored requirements.txt from backup", <<>>)
                          ELSE LogRec("ERROR", "Failed to restore backup", <<>>)
             IN IF RestoreRaises(copied)
                THEN UpgradeRaises(<<entry>>, RestoreError)
                ELSE IF after = "raise"
                     THEN UpgradeRaises(<<entry>>, RewriteError)
                     ELSE InstallFailed(entry)
    /\ UNCHANGED <<argVars, backupExists, backup, backupWrites, localVars, invoked>>

\* new_packages = self.get_installed_packages()
FreezeAfter ==
    /\ pc = "freeze_after"
    /\ \E r \in Outcomes("freeze"), stdout \in FreezePool :
          /\ invoked' = Append(invoked, Cmd("freeze", "", <<>>, r))
          /\ IF r = "raise" \/ FreezeRaises(stdout)
             THEN UpgradeRaises(PipLog(r), IF r = "raise" THEN CannotRun ELSE ValueError)
                  /\ UNCHANGED newPackages
             ELSE /\ newPackages' = GetInstalledPackages(stdout)
                  /\ log' = log \o PipLog(r)
                  /\ pc' = "report"
                  /\ UNCHANGED exitCode
    /\ UNCHANGED <<argVars, fileVars, backupFile, skipped, oldPackages, requirements,
                   wIdx, simIdx, after>>

\* self._report_changes(old_packages, new_packages, skipped_packages), and the return.
Report ==
    /\ pc = "report"
    /\ UpgradeReturns(ReportChanges(oldPackages, newPackages, skipped))
    /\ UNCHANGED <<argVars, fileVars, localVars, invoked>>

Next ==
    \/ CheckPip
    \/ Construct
    \/ UpgradePip
    \/ GetSkipped
    \/ FreezeBefore
    \/ Simulate
    \/ CreateBackup
    \/ RewriteRead
    \/ RewriteOpen
    \/ RewriteWrite
    \/ Install
    \/ RestoreBackup
    \/ FreezeAfter
    \/ Report

Spec == Init /\ [][Next]_vars

\* ------------------------------------------------------------------ the methods called on their own
\* The alphabet of the enumerated lines: a letter in both cases, the pin's sign,
\* the comment sign and a blank.
LineChars == {"a", "A", "=", "#", " "}

\* Every line of at most n characters.
RECURSIVE LinesUpTo(_)
LinesUpTo(n) ==
    IF n = 0 THEN {<<>>}
    ELSE LinesUpTo(n - 1)
             \cup {Append(l, c) : l \in {x \in LinesUpTo(n - 1) : Len(x) = n - 1},
                                  c \in LineChars}

\* What follows the enumerated first line: the end of the file without or with
\* a newline, or further lines.
TailPool ==
    { <<>>,
      <<NL>>,
      <<"\n", " ", "#", "x", "\n", "\n", "A", "=", "=", "1", "\n", "b">> }

EnumeratedManifests ==
    {first \o tail : first \in LinesUpTo(MaxLineLen), tail \in TailPool} \cup ManifestPool

PkgNames == <<<<"a">>, <<"f", "l", "a", "s", "k">>, <<"b">>, <<"c">>>>

PkgVersions == {<<"1">>, <<"2">>}

\* Every snapshot of at most n packages: lowercase names, each once.
RECURSIVE SnapshotsUpTo(_)
SnapshotsUpTo(n) ==
    IF n = 0 THEN {<<>>}
    ELSE SnapshotsUpTo(n - 1)
             \cup {Append(d, <<PkgNames[k], v>>) :
                       d \in {x \in SnapshotsUpTo(n - 1) : Len(x) = n - 1},
                       k \in 1..MaxPkgs, v \in PkgVersions}

Snapshots == {d \in SnapshotsUpTo(MaxPkgs) : Cardinality(DictKeys(d)) = Len(d)}

\* A PipUpgrader over a requirements file that exists, its skip list loaded, before
\* any of its methods is called: either any enumerated file, or any pair of snapshots.
InitApi ==
    /\ pc = "api_new"
    /\ skipPip = FALSE
    /\ requirementsArg = "requirements.txt"
    /\ manifestExists = TRUE
    /\ skipFile \in SkipFilePool
    /\ skipped = IF skipFile.exists THEN GetSkippedPackages(skipFile.text) ELSE <<>>
    /\ \/ /\ manifest \in EnumeratedManifests
          /\ dryRun = FALSE
          /\ oldPackages = <<>>
          /\ newPackages = <<>>
       \/ /\ manifest \in ManifestPool
          /\ dryRun = TRUE
          /\ oldPackages = <<>>
          /\ newPackages = <<>>
       \/ /\ manifest = <<>>
          /\ dryRun = FALSE
          /\ oldPackages \in Snapshots
          /\ newPackages \in Snapshots
    /\ manifest0 = manifest
    /\ backupExists = FALSE
    /\ backup = <<>>
    /\ backupFile = "unset"
    /\ requirements = <<>>
    /\ wIdx = 0
    /\ simIdx = 0
    /\ invoked = <<>>
    /\ log = <<>>
    /\ exitCode = -1
    /\ after = "none"
    /\ manifestWrites = 0
    /\ backupWrites = 0
    /\ raised = FALSE
    /\ pipOnPath = TRUE

\* create_backup()
ApiCreateBackup ==
    /\ pc = "api_new"
    /\ \E copied \in BOOLEAN :
          LET res == CreateBackupResult(dryRun, manifestExists, copied)
          IN /\ IF copied
                THEN /\ backupExists' = TRUE
                     /\ backup' = Copy2(manifest)
                     /\ backupWrites' = backupWrites + 1
                ELSE \/ UNCHANGED <<backupExists, backup, backupWrites>>
                     \/ /\ backupExists' = TRUE
                        /\ backup' \in Prefixes(manifest)
                        /\ backupWrites' = backupWrites + 1
             /\ backupFile' = res.ret
             /\ raised' = res.raised
             /\ log' = Append(log, IF copied THEN LogRec("INFO", "Created backup", <<>>)
                                   ELSE LogRec("ERROR", "Failed to create backup", <<>>))
    /\ pc' = "api_backed"
    /\ UNCHANGED <<dryRun, skipPip, requirementsArg, manifest0, skipFile, pipOnPath, manifestExists,
                   manifest, manifestWrites, skipped, oldPackages, newPackages,
                   requirements, wIdx, simIdx, after, invoked, exitCode>>

\* _process_requirements(skipped_packages), run to its end; it may be called again.
ApiProcessRequirements ==
    /\ pc \in {"api_new", "api_backed", "api_rewritten"}
    /\ ~raised
    /\ requirements' = ReadLines(manifest)
    /\ manifest' = ProcessRequirements(manifest, skipped)
    /\ manifestWrites' = manifestWrites + 1 + Len(ReadLines(manifest))
    /\ wIdx' = Len(ReadLines(manifest)) + 1
    /\ pc' = IF pc = "api_rewritten" THEN "api_rewritten2" ELSE "api_rewritten"
    /\ UNCHANGED <<argVars, manifestExists, backupExists, backup, backupWrites, backupFile,
                   skipped, oldPackages, newPackages, simIdx, after, invoked, log, exitCode>>

\* _restore_backup(backup_file) of the backup create_backup returned.
ApiRestoreBackup ==
    /\ pc \in {"api_backed", "api_rewritten", "api_rewritten2"}
    /\ backupFile \notin {"unset", "None"}
    /\ \E copied \in BOOLEAN :
          /\ IF copied
             THEN /\ manifest' = Copy2(backup)
                  /\ manifestWrites' = manifestWrites + 1
             ELSE \/ UNCHANGED <<manifest, manifestWrites>>
                  \/ /\ manifest' \in Prefixes(backup)
                     /\ manifestWrites' = manifestWrites + 1
          /\ log' = Append(log, IF copied
                                THEN LogRec("INFO", "Restored requirements.txt from backup", <<>>)
                                ELSE LogRec("ERROR", "Failed to restore backup", <<>>))
          /\ after' = IF copied THEN "restored" ELSE "not restored"
    /\ pc' = "api_restored"
    /\ UNCHANGED <<argVars, manifestExists, backupExists, backup, backupWrites, backupFile,
                   skipped, oldPackages, newPackages, requirements, wIdx, simIdx, invoked,
                   exitCode>>

\* _report_changes(old_packages, new_packages, skipped_packages)
ApiReportChanges ==
    /\ pc = "api_new"
    /\ log' = log \o ReportChanges(oldPackages, newPackages, skipped)
    /\ pc' = "api_reported"
    /\ UNCHANGED <<argVars, fileVars, localVars, invoked, exitCode>>

NextApi ==
    \/ ApiCreateBackup
    \/ ApiProcessRequirements
    \/ ApiRestoreBackup
    \/ ApiReportChanges

SpecApi == InitApi /\ [][NextApi]_vars

\* The run of the script and the methods called on their own, together.
InitAll == Init \/ InitApi

NextAll == Next \/ NextApi

SpecAll == InitAll /\ [][NextAll]_vars

\* ------------------------------------------------------------------ what a state tells of the run so far
Logged(msg) == \E i \in 1..Len(log) : log[i].msg = msg

InvokedCmd(cmd) == \E i \in 1..Len(invoked) : invoked[i].cmd = cmd

\* The install/upgrade command was run and exited non-zero.
InstallExitedNonZero ==
    \E i \in 1..Len(invoked) : invoked[i].cmd = "install" /\ invoked[i].result = "nonzero"

AfterSnapshotTaken == Cardinality({i \in 1..Len(invoked) : invoked[i].cmd = "freeze"}) > 1

ReportProduced ==
    Logged("Updated packages:") \/ Logged("No packages were updated.") \/ Logged("update")

Restored == Logged("Restored requirements.txt from backup")

RestoreFailed == Logged("Failed to restore backup")

\* ------------------------------------------------------------------ C1
\* C1 as stated: in a real run whose install/upgrade command exited non-zero, at the
\* end of the run the requirements file holds its pre-run text, no after-snapshot
\* was taken, no change report was produced and the failure was reported.
C1_RestoredAfterInstallFailure ==
    (pc = "done" /\ ~dryRun /\ InstallExitedNonZero) =>
        /\ manifest = manifest0
        /\ ~AfterSnapshotTaken
        /\ ~ReportProduced
        /\ Logged("Package upgrade failed, restored backup")

\* C1 amended: after a non-zero exit of the install/upgrade command no after-snapshot
\* is taken and no change report produced, the backup holds the pre-run text and a
\* restore is attempted; at the end of the run the failure is logged, and the
\* requirements file holds its pre-run text if the restoring copy succeeded.
C1_RestoreAttemptedAfterInstallFailure ==
    /\ (~dryRun /\ InstallExitedNonZero) =>
           /\ ~AfterSnapshotTaken
           /\ ~ReportProduced
           /\ backupExists /\ backup = manifest0
           /\ pc \in {"restore", "done"}
    /\ (pc = "done" /\ ~dryRun /\ InstallExitedNonZero) =>
           /\ Logged("Package upgrade failed, restored backup")
           /\ Restored \/ RestoreFailed
           /\ Restored => manifest = manifest0

\* A run ended after a failed install whose restore put back a file the rewrite
\* had changed.
C1_Witness ==
    /\ pc = "done" /\ ~dryRun /\ InstallExitedNonZero /\ Restored
    /\ manifest = manifest0
    /\ ProcessRequirements(manifest0, skipped) # manifest0

\* ------------------------------------------------------------------ C2
\* C2: in a dry run the requirements file is never written, no backup file is
\* created or written, and neither the install/upgrade command nor pip's
\* self-upgrade is run, whatever the skip list and the snapshot.
C2_DryRunTouchesNothing ==
    dryRun =>
        /\ manifest = manifest0
        /\ manifestWrites = 0
        /\ ~backupExists /\ backup = <<>> /\ backupWrites = 0
        /\ ~InvokedCmd("install")
        /\ ~InvokedCmd("self_upgrade")

\* A dry run over a non-empty skip list that looked a package up and ended.
C2_Witness ==
    /\ dryRun /\ ~skipPip /\ pc = "done" /\ exitCode = 0
    /\ skipped # <<>>
    /\ InvokedCmd("index")
    /\ Logged("Would upgrade")

\* ------------------------------------------------------------------ C3
\* C3: in every state of a real run, once the requirements file has been opened for
\* writing, written or differs from its pre-run text, a backup file exists that
\* holds the pre-run text and has been written exactly once (so it was made before
\* the first write and neither overwritten nor deleted since).
C3_BackupHoldsPreRunText ==
    (~dryRun /\ (manifest # manifest0 \/ manifestWrites > 0)) =>
        /\ backupExists
        /\ backup = manifest0
        /\ backupWrites = 1

\* A run that ended after a failed restore left the file different from its
\* pre-run text.
C3_Witness ==
    /\ pc = "done" /\ ~dryRun /\ RestoreFailed
    /\ manifest # manifest0
    /\ backupExists /\ backup = manifest0

\* ------------------------------------------------------------------ C4
\* A name or a version: at least one character, none of them a blank, a newline
\* or a sign of a comment or a comparison.
IsWord(s) == s # <<>> /\ \A i \in 1..Len(s) : s[i] \notin Whitespace \cup {"=", "#", ">", "<"}

\* A well-formed exact pin: `pkg==ver` and a newline, nothing else.
WellFormedPin(l) ==
    /\ l # <<>>
    /\ l[Len(l)] = NL
    /\ LET body == SubSeq(l, 1, Len(l) - 1)
       IN /\ HasEq(body)
          /\ Len(SplitEq(body)) = 2
          /\ IsWord(SplitEq(body)[1])
          /\ IsWord(SplitEq(body)[2])

PinName(l) == SplitEq(SubSeq(l, 1, Len(l) - 1))[1]

PinVersion(l) == SplitEq(SubSeq(l, 1, Len(l) - 1))[2]

\* `pkg>=ver` of a well-formed `pkg==ver` line.
Relaxed(l) == PinName(l) \o <<">", "=">> \o PinVersion(l) \o <<NL>>

\* The file was rewritten once, by a call of _process_requirements on its own.
RewrittenOnce == pc = "api_rewritten"

\* C4 as stated: rewritten with an empty skip list, the file holds `pkg>=ver` for
\* every well-formed `pkg==ver` line and every other line as it was, byte for byte.
C4_OtherLinesByteIdentical ==
    (RewrittenOnce /\ skipped = <<>>) =>
        manifest = Concat([i \in 1..Len(ReadLines(manifest0)) |->
                              IF WellFormedPin(ReadLines(manifest0)[i])
                              THEN Relaxed(ReadLines(manifest0)[i])
                              ELSE ReadLines(manifest0)[i]])

\* ------------------------------------------------------------------ C5
\* The line is a well-formed pin of a package that a member of the skip list
\* names, letter case aside.
SkippedIgnoringCase(l) ==
    /\ WellFormedPin(l)
    /\ \E k \in 1..Len(skipped) : Lower(skipped[k]) = Lower(PinName(l))

\* C5 as stated: rewritten under a skip list loaded from the skip file, every pin
\* whose package the list names case-insensitively is as it was, byte for byte,
\* and every other well-formed pin is relaxed; the two-pin scenario with `flask`
\* skipped keeps `flask==2.0.1` and yields `requests>=2.28.0`.
C5_SkippedCaseInsensitively ==
    RewrittenOnce =>
        /\ Len(ReadLines(manifest)) = Len(ReadLines(manifest0))
        /\ \A i \in 1..Len(ReadLines(manifest0)) :
              LET l == ReadLines(manifest0)[i]
              IN /\ SkippedIgnoringCase(l) => ReadLines(manifest)[i] = l
                 /\ (WellFormedPin(l) /\ ~SkippedIgnoringCase(l)) =>
                        ReadLines(manifest)[i] = Relaxed(l)
        /\ (manifest0 = <<"f", "l", "a", "s", "k", "=", "=", "2", ".", "0", ".", "1", "\n", "r", "e", "q", "u", "e", "s", "t", "s", "=", "=", "2", ".", "2", "8", ".", "0", "\n">>
              /\ skipped = <<<<"f", "l", "a", "s", "k">>>>) =>
               manifest = <<"f", "l", "a", "s", "k", "=", "=", "2", ".", "0", ".", "1", "\n", "r", "e", "q", "u", "e", "s", "t", "s", ">", "=", "2", ".", "2", "8", ".", "0", "\n">>

\* ------------------------------------------------------------------ C6
ApiPcs == {"api_new", "api_backed", "api_rewritten", "api_rewritten2", "api_restored",
           "api_reported"}

\* C6: in a real run without a backup that holds the pre-run text the requirements
\* file is never written and the install/upgrade command never run; when
\* create_backup returns None the run has ended with the abort logged as an error,
\* and when its copy failed the run has ended as an error (exit 1). Called in a
\* dry run, create_backup whose copy fails returns None and does not raise; in a
\* real one it raises.
C6_BackupFailureAborts ==
    /\ (pc \notin ApiPcs /\ ~dryRun /\ ~(backupExists /\ backup = manifest0)) =>
           /\ manifestWrites = 0
           /\ manifest = manifest0
           /\ ~InvokedCmd("install")
    /\ (pc \notin ApiPcs /\ ~dryRun /\ backupFile = "None") =>
           /\ pc = "done"
           /\ manifestWrites = 0
           /\ ~InvokedCmd("install")
           /\ \/ Logged("Failed to create backup, aborting")
              \/ Logged("Failed to create backup") /\ Logged("Script failed") /\ exitCode = 1
    /\ (pc \notin ApiPcs /\ ~dryRun /\ Logged("Failed to create backup")) =>
           /\ pc = "done"
           /\ exitCode = 1
           /\ Logged("Script failed")
           /\ backupFile = "None"
    /\ (pc = "api_backed" /\ Logged("Failed to create backup")) =>
           /\ backupFile = "None"
           /\ raised = ~dryRun

\* A real run whose backup copy failed: it ended as an error with nothing written.
C6_Witness ==
    /\ pc = "done" /\ ~dryRun
    /\ Logged("Failed to create backup")
    /\ exitCode = 1
    /\ manifestWrites = 0
    /\ ProcessRequirements(manifest0, skipped) # manifest0

\* ------------------------------------------------------------------ C7
\* _process_requirements raised: upgrade_packages' handler of it was entered.
RewriteFailed == after = "raise"

\* C7 as stated: when the rewrite failed, at the end of the run the requirements
\* file holds its pre-run text, the run ended as an error and the install/upgrade
\* command was never run.
C7_RestoredAfterRewriteFailure ==
    (pc = "done" /\ RewriteFailed) =>
        /\ manifest = manifest0
        /\ exitCode = 1
        /\ Logged("Script failed")
        /\ ~InvokedCmd("install")

\* C7 amended: when the rewrite failed, the install/upgrade command is never run
\* and the backup holds the pre-run text; at the end of the run a restore was
\* attempted before the error was logged by upgrade_packages, the run ended as an
\* error, and the requirements file holds its pre-run text if the restoring copy
\* succeeded.
C7_RestoreAttemptedAfterRewriteFailure ==
    /\ RewriteFailed =>
           /\ ~InvokedCmd("install")
           /\ backupExists /\ backup = manifest0
           /\ pc \in {"restore", "done"}
    /\ (pc = "done" /\ RewriteFailed) =>
           /\ exitCode = 1
           /\ Logged("Script failed")
           /\ \E i \in 1..Len(log), j \in 1..Len(log) :
                 /\ i < j
                 /\ log[i].msg \in {"Restored requirements.txt from backup",
                                    "Failed to restore backup"}
                 /\ log[j].msg = "Error during upgrade process"
           /\ Restored => manifest = manifest0

\* A rewrite that failed after some of the lines, but not all, were written, and
\* whose restore put the pre-run text back.
C7_Witness ==
    /\ pc = "done" /\ RewriteFailed /\ Restored
    /\ wIdx >= 2 /\ wIdx <= Len(requirements)
    /\ manifest = manifest0
    /\ exitCode = 1

\* ------------------------------------------------------------------ C8
\* The packages of both snapshots, not in the skip list, whose versions differ.
ChangedPackages ==
    {p \in DictKeys(oldPackages) \cap DictKeys(newPackages) :
        /\ \A k \in 1..Len(skipped) : skipped[k] # p
        /\ DictGet(oldPackages, p) # DictGet(newPackages, p)}

\* `name: old -> new`
ChangeLine(p) ==
    p \o <<":", " ">> \o DictGet(oldPackages, p) \o <<" ", "-", ">", " ">>
      \o DictGet(newPackages, p)

ChangeLinesLogged == {i \in 1..Len(log) : log[i].msg = "update"}

NoticesLogged == {i \in 1..Len(log) : log[i].msg = "No packages were updated."}

\* C8: _report_changes logs exactly one line `name: old -> new` for each package
\* of both snapshots that is not in the skip list and whose version differs, no
\* other change line, and, when there is no such package, one notice that nothing
\* was updated and nothing else.
C8_ReportsExactlyTheChanged ==
    pc = "api_reported" =>
        /\ \A p \in ChangedPackages :
              Cardinality({i \in ChangeLinesLogged : log[i].text = ChangeLine(p)}) = 1
        /\ \A i \in ChangeLinesLogged : \E p \in ChangedPackages : log[i].text = ChangeLine(p)
        /\ ChangedPackages = {} => Len(log) = 1 /\ Cardinality(NoticesLogged) = 1
        /\ ChangedPackages # {} => NoticesLogged = {}

\* A report of one changed package while another, changed too, is in the skip list.
C8_Witness ==
    /\ pc = "api_reported"
    /\ Cardinality(ChangedPackages) = 1
    /\ \E p \in DictKeys(oldPackages) \cap DictKeys(newPackages) :
          /\ p \in Range(skipped)
          /\ DictGet(oldPackages, p) # DictGet(newPackages, p)
    /\ Cardinality(ChangeLinesLogged) = 1

\* ------------------------------------------------------------------ C9
\* C9 as stated: every install/upgrade command is run against the requirements
\* file of the run, the one --requirements names, and its non-zero exit does not
\* raise: the run does not end as an error of the upgrade.
C9_InstallsFromTheManifest ==
    /\ \A i \in 1..Len(invoked) :
          invoked[i].cmd = "install" => Resolve(invoked[i].file) = RequirementsFile
    /\ InstallExitedNonZero => ~Logged("Error during upgrade process") /\ exitCode # 1

RewrittenTwice == pc = "api_rewritten2"

\* C11 as stated: a line that holds a `>=` pin is left as it is by the rewrite, so
\* the file rewritten a second time holds what it held after the first rewrite,
\* whatever the file and the skip list.
C11_RewriteIdempotent ==
    RewrittenTwice => manifest = ProcessRequirements(manifest0, skipped)

\* ------------------------------------------------------------------ C13
\* A comment line: its first character that is not a blank is the comment sign.
IsCommentLine(l) == Strip(l) # <<>> /\ Strip(l)[1] = "#"

\* C13 as stated: the rewritten file has as many lines as the file read, equal
\* lines read are written equal (a line written depends on the line read alone),
\* and every comment line, indented or holding `==`, is as it was, byte for byte.
C13_OrderAndCommentsVerbatim ==
    RewrittenOnce =>
        /\ Len(ReadLines(manifest)) = Len(ReadLines(manifest0))
        /\ \A i \in 1..Len(ReadLines(manifest0)), j \in 1..Len(ReadLines(manifest0)) :
              ReadLines(manifest0)[i] = ReadLines(manifest0)[j] =>
                  ReadLines(manifest)[i] = ReadLines(manifest)[j]
        /\ \A i \in 1..Len(ReadLines(manifest0)) :
              IsCommentLine(ReadLines(manifest0)[i]) =>
                  ReadLines(manifest)[i] = ReadLines(manifest0)[i]

\* ------------------------------------------------------------------ C12
\* The run ended on an exception that nothing but main's handler caught.
ScriptFailed == Logged("Script failed")

\* The run ended because __init__ found no requirements file.
ManifestMissing ==
    \E i \in 1..Len(log) : log[i].msg = "Script failed" /\ log[i].text = FileNotFound

\* main's check found that pip is not installed.
PipNotInstalled ==
    \E i \in 1..Len(invoked) : invoked[i].cmd = "version" /\ invoked[i].result = "nonzero"

\* Nothing was changed: no write of the requirements file, no backup made, no
\* install or upgrade command run.
NothingMutated ==
    /\ manifestWrites = 0
    /\ backupWrites = 0
    /\ ~backupExists
    /\ ~InvokedCmd("install")
    /\ ~InvokedCmd("self_upgrade")

\* C12 as stated: a run that ended exits 0 or 1, and 1 whenever an exception reached
\* main or pip is not installed; a run that emitted its change report or finished
\* its simulation exits 0; and a run with no requirements file, with pip not
\* installed or with no pip executable to run ends with a non-zero exit and with
\* nothing changed: no write of the requirements file, no backup, no install or
\* upgrade command.
C12_ConfigErrorsAbortBeforeMutation ==
    (pc = "done") =>
        /\ exitCode \in {0, 1}
        /\ (ScriptFailed \/ PipNotInstalled) => exitCode = 1
        /\ (ReportProduced \/ (dryRun /\ simIdx > Len(oldPackages))) => exitCode = 0
        /\ (ManifestMissing \/ PipNotInstalled \/ ~pipOnPath) =>
               exitCode = 1 /\ NothingMutated

\* ------------------------------------------------------------------ C14
\* The exception e was logged by upgrade_packages and by main as the run's failure.
FailedWith(e) ==
    /\ \E i \in 1..Len(log) : log[i].msg = "Error during upgrade process" /\ log[i].text = e
    /\ \E i \in 1..Len(log) : log[i].msg = "Script failed" /\ log[i].text = e

\* C14: in a run that ended after a restore whose copy failed, the failure of the
\* copy is logged and is the failure of no handler; the backup file still holds the
\* pre-run text; after an install that exited non-zero the run ended as the handled
\* failure (logged, no exception, exit 0); after a rewrite that failed the run
\* ended on the rewrite's exception, logged by upgrade_packages and by main,
\* with exit 1.
C14_RestoreIsBestEffort ==
    (pc = "done" /\ RestoreFailed) =>
        /\ backupExists /\ backup = manifest0
        /\ ~FailedWith(RestoreError)
        /\ \A i \in 1..Len(log) : log[i].text # RestoreError
        /\ InstallExitedNonZero =>
               /\ Logged("Package upgrade failed, restored backup")
               /\ ~ScriptFailed
               /\ ~Logged("Error during upgrade process")
               /\ exitCode = 0
        /\ RewriteFailed =>
               /\ FailedWith(RewriteError)
               /\ exitCode = 1
        /\ InstallExitedNonZero \/ RewriteFailed

\* A run ended after a rewrite that failed and a restore that failed and left the
\* requirements file with other text than it had.
C14_Witness ==
    /\ pc = "done"
    /\ RestoreFailed
    /\ RewriteFailed
    /\ manifest # manifest0

\* ------------------------------------------------------------------ C15
\* The run ended on an exception that came out of get_installed_packages: the last
\* command run is `pip freeze` and the exception is subprocess.run's or the
\* unpacking's.
SnapshotRaised ==
    /\ pc = "done"
    /\ invoked # <<>>
    /\ invoked[Len(invoked)].cmd = "freeze"
    /\ FailedWith(CannotRun) \/ FailedWith(ValueError)

\* C15 as stated: get_installed_packages raises only when `pip freeze` could not be
\* run; when the command ran, with a zero or a non-zero exit and whatever it
\* printed, nothing is raised.
C15_SnapshotRaisesOnlyWhenCannotRun ==
    SnapshotRaised => invoked[Len(invoked)].result = "raise"

\* ------------------------------------------------------------------ C16
\* How many times the command was run.
TimesInvoked(cmd) == Cardinality({i \in 1..Len(invoked) : invoked[i].cmd = cmd})

\* How many times the message was logged.
TimesLogged(msg) == Cardinality({i \in 1..Len(log) : log[i].msg = msg})

\* The place of a step in the order of the run: the skip list, the first snapshot,
\* the simulation or the backup, the rewrite, the install, the restore or the
\* second snapshot, the report, the end.
StepOrder(p) ==
    CASE p = "start" -> 0
      [] p = "construct" -> 1
      [] p = "upgrade_pip" -> 2
      [] p = "skip_list" -> 3
      [] p = "freeze_before" -> 4
      [] p \in {"simulate", "backup"} -> 5
      [] p = "rewrite_read" -> 6
      [] p = "rewrite_open" -> 7
      [] p = "rewrite_write" -> 8
      [] p = "install" -> 9
      [] p \in {"restore", "freeze_after"} -> 10
      [] p = "report" -> 11
      [] OTHER -> 12

\* The rewrite was begun.
RewriteBegun ==
    pc \in {"rewrite_read", "rewrite_open", "rewrite_write"} \/ requirements # <<>>
        \/ manifestWrites > 0 \/ RewriteFailed

\* The rewrite wrote every line it read and closed the file.
RewriteCompleted == wIdx = Len(requirements) + 1 /\ ~RewriteFailed

\* The install/upgrade command ran and exited with zero.
InstallSucceeded ==
    \E i \in 1..Len(invoked) : invoked[i].cmd = "install" /\ invoked[i].result = "ok"

\* Each step at most once, and each only after the step it depends on succeeded.
StepsInOrder ==
    /\ TimesInvoked("install") <= 1
    /\ TimesInvoked("freeze") <= 2
    /\ backupWrites <= 1
    /\ TimesLogged("Skipping packages") <= 1
    /\ TimesLogged("Upgrading packages...") <= 1
    /\ (pc \in {"backup", "simulate"} \/ backupFile # "unset") => TimesInvoked("freeze") >= 1
    /\ RewriteBegun =>
           /\ backupFile = "requirements_backup"
           /\ backupExists /\ backup = manifest0
           /\ backupWrites = 1
    /\ (pc = "install" \/ InvokedCmd("install")) => RewriteCompleted
    /\ (pc = "freeze_after" \/ AfterSnapshotTaken) => InstallSucceeded
    /\ (pc = "report" \/ ReportProduced) =>
           /\ AfterSnapshotTaken
           /\ invoked[Len(invoked)].cmd = "freeze"
           /\ invoked[Len(invoked)].result # "raise"

\* A step of the run goes on to a later step, or is one more turn of the loop of
\* the simulation or of the rewrite.
StepForward ==
    \/ StepOrder(pc') > StepOrder(pc)
    \/ pc' = pc /\ pc \in {"simulate", "rewrite_write"}

\* A step of the run runs one command or reaches one file, not both.
OneAccessAStep ==
    /\ Len(invoked') <= Len(invoked) + 1
    /\ (manifestWrites' + backupWrites') <= (manifestWrites + backupWrites) + 1
    /\ ~(invoked' # invoked /\ <<manifest, backup>>' # <<manifest, backup>>)

\* C16: in every run each step occurs at most once and in the order skip list,
\* first snapshot, backup, rewrite, install, second snapshot, report; the rewrite
\* is begun only with the backup made, the install only with the rewrite completed,
\* the second snapshot and the report only with the install succeeded; and no step
\* both runs a command and reaches a file.
C16_StepsOnceInOrder ==
    /\ []StepsInOrder
    /\ [][StepForward /\ OneAccessAStep]_vars

\* A real run went through every step to its report, with a skip list.
C16_Witness ==
    /\ pc = "done"
    /\ ~dryRun
    /\ ReportProduced
    /\ skipped # <<>>
    /\ manifestWrites > 1

\* ------------------------------------------------------------------ C17
\* The run of the script in which a step that can be taken is taken in the end:
\* every command run and every file operation returns.
FairSpec == Spec /\ WF_vars(Next)

\* The dry run went through its simulation and returned.
DryRunFinished == dryRun /\ simIdx > Len(oldPackages) /\ ~ScriptFailed

\* The install exited non-zero, the restore was attempted and the failure logged.
HandledFailure ==
    /\ InstallExitedNonZero
    /\ Restored \/ RestoreFailed
    /\ Logged("Package upgrade failed, restored backup")

\* The run stopped at a failure it does not recover from: an exception that
\* reached main, pip found not installed, or no backup to work with.
StoppedAtError ==
    ScriptFailed \/ PipNotInstalled \/ Logged("Failed to create backup, aborting")

\* How many of the final outcomes the run has.
OutcomesReached ==
    Cardinality({o \in {"dry run", "report", "handled", "error"} :
                    \/ o = "dry run" /\ DryRunFinished
                    \/ o = "report" /\ ReportProduced
                    \/ o = "handled" /\ HandledFailure
                    \/ o = "error" /\ StoppedAtError})

\* A failure that ends the run was met: a rewrite or an install failed, or the
\* process has its exit status.
FailureMet == after # "none" \/ exitCode # -1

\* C17: with every command and file operation returning, every run ends; at its end
\* it has exactly one of the outcomes dry run finished, report emitted, handled
\* install failure, stopped at an error; once ended it takes no step; and after a
\* failure the only step left before the end is the restore, taken once.
C17_TerminatesInOneOutcome ==
    /\ <>(pc = "done")
    /\ [](pc = "done" => OutcomesReached = 1)
    /\ [](FailureMet => pc \in {"restore", "done"})
    /\ [][pc # "done" /\ (pc = "restore" => pc' = "done")]_vars

\* A run ended as the handled failure of the install, the requirements file restored.
C17_Witness ==
    /\ pc = "done"
    /\ HandledFailure
    /\ Restored
    /\ OutcomesReached = 1

\* ------------------------------------------------------------------ C18
\* The process reported that it completed: main's last message, and exit status 0.
ReportedSuccess ==
    Logged("Script execution finished successfully.") /\ exitCode = 0

\* C18 as stated: a run that ended reporting that it completed either finished its
\* dry-run simulation or emitted its change report after the install; a run that
\* stopped for want of a backup or on an install that exited non-zero does not
\* report that it completed.
C18_SuccessOnlyWhenCompleted ==
    (pc = "done") =>
        /\ ReportedSuccess => (DryRunFinished \/ (InstallSucceeded /\ ReportProduced))
        /\ (Logged("Failed to create backup, aborting") \/ InstallExitedNonZero) =>
               ~ReportedSuccess
====
